---- MODULE Spec2Model ----
(***************************************************************************)
(* Model of the bundling pipeline of the ERC-4337 bundler:                 *)
(* BundleManager.sendNextBundle / createBundle / sendBundle                *)
(* (packages/bundler/src/modules/BundleManager.ts) together with the       *)
(* collaborators it calls (mempool, reputation, validation, events).       *)
(***************************************************************************)
EXTENDS Integers, Sequences, FiniteSets, TLC

\* ------------------------------------------------------------------ bounds
\* number of concurrent callers of sendNextBundle (each calls once)
NumCallers == 2
\* largest number of entries the mempool holds initially
MaxMempool == 2

Callers == 1..NumCallers

\* ------------------------------------------------------------- value sets
Null == "null"
\* sender strings as clients submit them: "0xA1" and "0xa1" are two
\* spellings of one account
SenderStrs == {"0xa1", "0xA1", "0xb2"}
Nonces == {0, 1}
PaymasterDatas == {"0x", "0xc3"}
InitCodes == {"0x", "0xd4"}
CallGasLimits == {1}
PreOpGasValues == {1, 2}
Prefunds == {1, 2}
Deposits == {1, 3}
SlotVals == {"v1", "v2"}
SenderAddrs == {"0xa1", "0xb2"}
SharedAddrs == {"0xc3"}
Entities == {"0xa1", "0xb2", "0xc3", "0xd4"}
ReasonPrefixes == {"AA1", "AA2", "AA3", "AA4"}

\* ---------------------------------------------------- program constants
\* BundleManager constructor parameter maxBundleGas
maxBundleGas == 3
\* BundleManager constructor parameter minSignerBalance
minSignerBalance == 1

\* ------------------------------------------------------ address helpers
\* toLowerAddr: the lower-case spelling of an address string
toLowerAddr(a) == IF a = "0xA1" THEN "0xa1" ELSE a

\* getAddr: the address prefix of initCode / paymasterAndData, lower-cased
\* by hexlify; undefined (Null) when the data is shorter than an address
getAddr(data) == IF data = "0x" THEN Null ELSE toLowerAddr(data)

UserOps ==
    [sender : SenderStrs, nonce : Nonces, paymasterAndData : PaymasterDatas,
     initCode : InitCodes, callGasLimit : CallGasLimits]

\* the contracts an op's validation references (sender, paymaster, factory)
ReferencedOf(op) ==
    {toLowerAddr(op.sender), getAddr(op.paymasterAndData), getAddr(op.initCode)} \ {Null}

MempoolEntry(op) == [userOp |-> op, referencedContracts |-> ReferencedOf(op)]

\* mempool identity of an op: (sender, nonce), addresses case-insensitive
OpKey(op) == <<toLowerAddr(op.sender), op.nonce>>


\* ------------------------------------------------------------ reputation
\* ReputationManager parameters and the counters crashedHandleOps writes
throttlingSlack == 10
throttleThreshold == 10
banSlack == 50
crashedOpsSeen == 100

RepOK == [opsSeen |-> 0, opsIncluded |-> 0]
RepThrottled == [opsSeen |-> 20, opsIncluded |-> 0]
RepBanned == [opsSeen |-> crashedOpsSeen, opsIncluded |-> 0]

\* ReputationManager.getStatus: OK for the null address, else derived from
\* the counters
getStatus(r, addr) ==
    IF addr = Null THEN "OK"
    ELSE LET e == r[addr]
             excess == e.opsSeen - e.opsIncluded * throttlingSlack
         IN  IF excess > banSlack THEN "BANNED"
             ELSE IF excess > throttleThreshold THEN "THROTTLED"
             ELSE "OK"

\* ReputationManager.crashedHandleOps: no-op for the null address
crashedHandleOps(r, addr) ==
    IF addr = Null THEN r
    ELSE [r EXCEPT ![toLowerAddr(addr)] = [opsSeen |-> crashedOpsSeen, opsIncluded |-> 0]]

\* ReputationManager.updateIncludedStatus: no-op for the null address
updateIncludedStatus(r, addr) ==
    IF addr = Null THEN r
    ELSE [r EXCEPT ![toLowerAddr(addr)].opsIncluded = @ + 1]

\* --------------------------------------------------------------- mempool
\* MempoolManager.removeUserOp: idempotent removal by (sender, nonce)
removeUserOp(mp, op) == SelectSeq(mp, LAMBDA e : OpKey(e.userOp) # OpKey(op))

\* MempoolManager.getSortedForInclusion: the mempool sequence is kept in
\* inclusion order, the snapshot is a copy of it
getSortedForInclusion(mp) == mp

SeqToSet(s) == {s[i] : i \in 1..Len(s)}

\* ----------------------------------------------------------- storage map
EmptyMap == <<>>
\* one storage entry: a root hash ("root" :> h) or a slot map (slot :> value)
IsRoot(e) == "root" \in DOMAIN e
SlotEntry(v) == "s0" :> v
RootEntry(h) == "root" :> h

StorageMaps ==
    {EmptyMap}
    \cup {a :> SlotEntry("v1") : a \in SenderAddrs}
    \cup {a :> SlotEntry(v) : a \in SharedAddrs, v \in SlotVals}

\* mergeStorageMap: a root hash of the validation map overrides, a root
\* already merged is kept, slot maps are merged slot by slot
mergeStorageMap(merged, validation) ==
    [a \in DOMAIN merged \cup DOMAIN validation |->
        IF a \notin DOMAIN validation THEN merged[a]
        ELSE IF IsRoot(validation[a]) THEN validation[a]
        ELSE IF a \notin DOMAIN merged THEN validation[a]
        ELSE IF IsRoot(merged[a]) THEN merged[a]
        ELSE validation[a] @@ merged[a]]

\* ----------------------------------------------------------- validation
\* ValidationManager.validateUserOp either throws or returns a result; it
\* throws when the op fails validation and when its RPC call fails (a
\* timeout, a disconnected node)
ValidationThrows == [threw |-> TRUE, transient |-> FALSE]
ValidationTimeout == [threw |-> TRUE, transient |-> TRUE]
AllValidationResults ==
    [threw : {FALSE}, preOpGas : PreOpGasValues, prefund : Prefunds,
     storageMap : StorageMaps]
DefaultResult == [threw |-> FALSE, preOpGas |-> 1, prefund |-> 1, storageMap |-> EmptyMap]
\* the results considered: at most one field differs from the default result
ValidationResults ==
    {r \in AllValidationResults :
        Cardinality({f \in {"preOpGas", "prefund", "storageMap"} :
                        r[f] # DefaultResult[f]}) <= 1}
ValidationOutcomes == {ValidationThrows, ValidationTimeout} \cup ValidationResults

\* ------------------------------------------------------------------ state
VARIABLES
    mempool,        \* MempoolManager: sequence of entries in inclusion order
    reputation,     \* ReputationManager: address -> counters
    config,         \* conditionalRpc / mergeToAccountRootHash
    mutexHolder,    \* BundleManager.mutex: the caller inside runExclusive, or 0
    mutexQueue,     \* callers waiting for the mutex, first come first served
    pc,             \* position of every sendNextBundle call
    loc,            \* locals of every sendNextBundle call
    callsLeft,      \* sendNextBundle calls the triggers still make
    pending,        \* ops of submitted handleOps transactions not yet mined
    events,         \* UserOperationEvents mined and not yet handled
    mined,          \* ops included on chain
    receiptLogs,    \* logs of the transaction receipt a receipt query reads
    receiptHash,    \* userOpHash of the receipt query
    receiptOut      \* what the receipt query ended with

vars ==
    <<mempool, reputation, config, mutexHolder, mutexQueue, pc, loc, callsLeft,
      pending, events, mined, receiptLogs, receiptHash, receiptOut>>
chain == <<pending, events, mined>>
\* the state of UserOpMethodHandler's receipt query
rpc == <<receiptLogs, receiptHash, receiptOut>>

NoCaller == 0
NoCall == [called |-> FALSE]
NoError == [kind |-> "none"]

\* locals of createBundle / sendBundle before a cycle has started
InitLoc ==
    [entries |-> <<>>, idx |-> 1, bundle |-> <<>>, senders |-> {},
     knownSenders |-> {}, paymasterDeposit |-> <<>>, stakedEntityCount |-> <<>>,
     storageMap |-> EmptyMap, totalGas |-> 0,
     results |-> <<>>,        \* re-validation result of every op of bundle
     balances |-> <<>>,       \* balanceOf answers, by paymaster
     outcome |-> <<>>,        \* what mainLoop did with every examined entry
     mempoolAtSend |-> <<>>, reputationAtSend |-> <<>>,
     minedAtStart |-> {},     \* ops on chain when the cycle started
     tx |-> NoCall,           \* the handleOps call of sendBundle
     signerBalance |-> <<>>,  \* <<the answer of getBalance(signer)>>
     beneficiary |-> Null, error |-> NoError, crashed |-> <<>>, ret |-> "none"]

Configs ==
    {[conditionalRpc |-> FALSE, mergeToAccountRootHash |-> FALSE],
     [conditionalRpc |-> TRUE, mergeToAccountRootHash |-> TRUE]}

\* sequences of at most n entries with pairwise distinct (sender, nonce)
RECURSIVE Mempools(_, _)
Mempools(ops, n) ==
    IF n = 0 THEN {<<>>}
    ELSE LET shorter == Mempools(ops, n - 1)
         IN  shorter \cup
             UNION {{Append(m, MempoolEntry(op)) :
                        op \in {o \in ops :
                            \A i \in 1..(n - 1) : OpKey(m[i].userOp) # OpKey(o)}} :
                    m \in {x \in shorter : Len(x) = n - 1}}

\* every entity starts OK but at most one paymaster or factory
InitialReputations ==
    {[a \in Entities |-> RepOK]}
    \cup {[a \in Entities |-> IF a = e THEN r ELSE RepOK] :
             e \in {"0xc3", "0xd4"}, r \in {RepThrottled, RepBanned}}

InitWith(ops, calls) ==
    /\ mempool \in Mempools(ops, MaxMempool)
    /\ reputation \in InitialReputations
    /\ config \in Configs
    /\ mutexHolder = NoCaller
    /\ mutexQueue = <<>>
    /\ pc = [c \in Callers |-> "idle"]
    /\ loc = [c \in Callers |-> InitLoc]
    /\ callsLeft = calls
    /\ pending = {}
    /\ events = {}
    /\ mined = {}
    /\ receiptLogs = <<>>
    /\ receiptHash = Null
    /\ receiptOut = NoCall

\* one bundling cycle over any mempool
Init == InitWith(UserOps, 1)

\* the ops of the mempools of the many-cycle specification
CycleOps == {op \in UserOps : op.sender \in SenderAddrs /\ op.nonce = 0}

\* concurrent and successive bundling cycles
InitCycles == InitWith(CycleOps, NumCallers)

\* ------------------------------------------------------------------ mutex
\* a mutex that never reports itself locked
MutexNeverLocked(holder) == FALSE

\* Mutex.isLocked as runExclusive sees it on entry
MutexIsLocked(holder) == holder # NoCaller

\* sendNextBundle: mutex.runExclusive starts the callback when the mutex is
\* free and queues the caller otherwise
sendNextBundle(c) ==
    /\ pc[c] = "idle"
    \* callers are interchangeable: they are numbered in the order they call
    /\ \A d \in Callers : d < c => pc[d] # "idle"
    /\ callsLeft > 0
    /\ callsLeft' = callsLeft - 1
    /\ IF MutexIsLocked(mutexHolder)
       THEN /\ mutexQueue' = Append(mutexQueue, c)
            /\ pc' = [pc EXCEPT ![c] = "waiting"]
            /\ UNCHANGED <<mutexHolder, loc>>
       ELSE /\ mutexHolder' = c
            /\ pc' = [pc EXCEPT ![c] = "handlePastEvents"]
            /\ loc' = [loc EXCEPT ![c].minedAtStart = mined]
            /\ UNCHANGED mutexQueue
    /\ UNCHANGED <<mempool, reputation, config, chain>>
    /\ UNCHANGED rpc

\* a mutex released by hand after the callback returned, with no finally:
\* a callback that threw leaves it locked
releaseOnReturnOnly(c) ==
    /\ pc[c] = "release"
    /\ IF loc[c].ret \in {"threw", "threwFatal", "threwTypeError"} \/ mutexQueue = <<>>
       THEN /\ mutexHolder' =
                   (IF loc[c].ret \in {"threw", "threwFatal", "threwTypeError"}
                    THEN mutexHolder ELSE NoCaller)
            /\ pc' = [pc EXCEPT ![c] = "done"]
            /\ loc' = [loc EXCEPT ![c] = InitLoc]
            /\ UNCHANGED mutexQueue
       ELSE /\ mutexHolder' = Head(mutexQueue)
            /\ mutexQueue' = Tail(mutexQueue)
            /\ pc' = [pc EXCEPT ![c] = "done", ![Head(mutexQueue)] = "handlePastEvents"]
            /\ loc' = [loc EXCEPT ![c] = InitLoc,
                                  ![Head(mutexQueue)].minedAtStart = mined]
    /\ UNCHANGED <<mempool, reputation, config, callsLeft, chain>>
    /\ UNCHANGED rpc

\* runExclusive's finally: the callback of caller c has settled (returned
\* or thrown); the mutex passes to the first waiter, whose callback starts
release(c) ==
    /\ pc[c] = "release"
    /\ IF mutexQueue = <<>>
       THEN /\ mutexHolder' = (IF mutexHolder = c THEN NoCaller ELSE mutexHolder)
            /\ pc' = [pc EXCEPT ![c] = "done"]
            /\ loc' = [loc EXCEPT ![c] = InitLoc]
            /\ UNCHANGED mutexQueue
       ELSE /\ mutexHolder' = Head(mutexQueue)
            /\ mutexQueue' = Tail(mutexQueue)
            /\ pc' = [pc EXCEPT ![c] = "done", ![Head(mutexQueue)] = "handlePastEvents"]
            /\ loc' = [loc EXCEPT ![c] = InitLoc,
                                  ![Head(mutexQueue)].minedAtStart = mined]
    /\ UNCHANGED <<mempool, reputation, config, callsLeft, chain>>
    /\ UNCHANGED rpc

\* the callback of caller c settles with result ret
Settle(c, l, ret) ==
    /\ loc' = [loc EXCEPT ![c] = [l EXCEPT !.ret = ret]]
    /\ pc' = [pc EXCEPT ![c] = "release"]
    /\ UNCHANGED <<mutexHolder, mutexQueue>>

\* ------------------------------------------------------- handlePastEvents
RECURSIVE handleEvents(_, _, _)
\* EventsManager.handlePastEvents: for every UserOperationEvent remove the
\* mempool entry and count the inclusion for sender, paymaster and factory
handleEvents(evs, mp, rep) ==
    IF evs = {} THEN [mempool |-> mp, reputation |-> rep]
    ELSE LET op == CHOOSE o \in evs : TRUE
             rep1 == updateIncludedStatus(rep, op.sender)
             rep2 == updateIncludedStatus(rep1, getAddr(op.paymasterAndData))
             rep3 == updateIncludedStatus(rep2, getAddr(op.initCode))
         IN  handleEvents(evs \ {op}, removeUserOp(mp, op), rep3)

\* createBundle started without the events having been handled
handlePastEventsNotAwaited(c) ==
    /\ pc[c] = "handlePastEvents"
    /\ pc' = [pc EXCEPT ![c] = "createBundle"]
    /\ UNCHANGED <<mempool, reputation, config, mutexHolder, mutexQueue, loc,
                   callsLeft, chain>>
    /\ UNCHANGED rpc

\* BundleManager.handlePastEvents, first step of the cycle; the event query
\* is an external call and may reject
handlePastEvents(c) ==
    /\ pc[c] = "handlePastEvents"
    /\ \E ok \in BOOLEAN :
         IF ok
         THEN LET r == handleEvents(events, mempool, reputation)
              IN  /\ mempool' = r.mempool
                  /\ reputation' = r.reputation
                  /\ events' = {}
                  /\ pc' = [pc EXCEPT ![c] = "createBundle"]
                  /\ UNCHANGED <<mutexHolder, mutexQueue, loc>>
         ELSE /\ Settle(c, loc[c], "threw")
              /\ UNCHANGED <<mempool, reputation, events>>
    /\ UNCHANGED <<config, callsLeft, pending, mined>>
    /\ UNCHANGED rpc

\* ------------------------------------------------------------ createBundle
\* createBundle up to mainLoop: the snapshot and the empty accumulators
createBundle(c) ==
    /\ pc[c] = "createBundle"
    /\ LET entries == getSortedForInclusion(mempool)
       IN  loc' = [loc EXCEPT ![c] =
                [InitLoc EXCEPT
                    !.minedAtStart = loc[c].minedAtStart,
                    !.entries = entries,
                    !.knownSenders =
                        {toLowerAddr(entries[i].userOp.sender) : i \in 1..Len(entries)}]]
    /\ pc' = [pc EXCEPT ![c] = "mainLoop"]
    /\ UNCHANGED <<mempool, reputation, config, mutexHolder, mutexQueue, callsLeft, chain>>
    /\ UNCHANGED rpc

\* the ban test without the factory
EntityBannedPaymasterOnly(paymasterStatus, deployerStatus) ==
    paymasterStatus = "BANNED"

\* paymasterStatus === BANNED || deployerStatus === BANNED
EntityBanned(paymasterStatus, deployerStatus) ==
    paymasterStatus = "BANNED" \/ deployerStatus = "BANNED"

\* a ?? b: b only when a is null or undefined
NullishCoalesce(leftIsNullish, left, right) == IF leftIsNullish THEN right ELSE left

\* the throttling test left out
ThrottledNeverSkips(entity, status, count) == FALSE

\* entity != null && (status === THROTTLED ?? count > 1): the comparison on
\* the left of ?? is a boolean, never nullish
ThrottledSkip(entity, status, count) ==
    entity # Null /\ NullishCoalesce(FALSE, status = "THROTTLED", count > 1)

\* senders.has(entry.userOp.sender): Set membership of the sender string
SenderInBundle(senders, sender) == sender \in senders

\* a re-validation that checks stakes again
ValidateArgsWithStakes(entry) ==
    [called |-> TRUE, userOp |-> entry.userOp,
     previousCodeHashes |-> entry.referencedContracts, checkStakes |-> TRUE]

\* the arguments of the re-validation call
ValidateArgs(entry) ==
    [called |-> TRUE, userOp |-> entry.userOp,
     previousCodeHashes |-> entry.referencedContracts, checkStakes |-> FALSE]

\* the cross-sender storage guard left out
AccessesNothing(validationStorageMap, sender, knownSenders) == FALSE

\* the storage map of the validation names an address, not the op's own
\* sender, that is a known sender of the snapshot
AccessesKnownSender(validationStorageMap, sender, knownSenders) ==
    \E storageAddress \in DOMAIN validationStorageMap :
        /\ toLowerAddr(storageAddress) # toLowerAddr(toLowerAddr(sender))
        /\ toLowerAddr(storageAddress) \in knownSenders

\* if (newTotalGas > this.maxBundleGas) { // break }: the comparison is
\* made and nothing acts on it
StopsAssembly(newTotalGas) == (newTotalGas > maxBundleGas) /\ FALSE

\* the deposit test left out
DepositNeverTooLow(deposit, prefund) == FALSE

\* paymasterDeposit[paymaster] < validationResult.returnInfo.prefund
DepositTooLow(deposit, prefund) == deposit < prefund

BalanceOutcomes == {[ok |-> FALSE]} \cup [ok : {TRUE}, value : Deposits]
ProofOutcomes == {[ok |-> FALSE], [ok |-> TRUE, storageHash |-> "h1"]}

Lookup(f, a, default) == IF a \in DOMAIN f THEN f[a] ELSE default

Skipped(l, tag, call) ==
    [l EXCEPT !.idx = @ + 1,
              !.outcome = Append(@, [tag |-> tag, call |-> call, transient |-> FALSE])]

\* the entry counted for its paymaster before the deposit test
DepositSkipAfterCounting(tested, counted) == counted

\* the locals a deposit skip leaves: the test of line 235 comes before the
\* paymaster is counted and charged (tested: the locals at the test,
\* counted: the locals after lines 240-241)
DepositSkipLocals(tested, counted) == tested

\* the op put in front of the bundle
bundleUnshift(bundle, userOp) == <<userOp>> \o bundle

\* bundle.push(entry.userOp)
bundlePush(bundle, userOp) == Append(bundle, userOp)

\* the part of one mainLoop iteration after the gas computation
IncludeEntry(l, cfg, entry, vr, bal, proof, newTotalGas) ==
    LET op == entry.userOp
        paymaster == getAddr(op.paymasterAndData)
        factory == getAddr(op.initCode)
        call == ValidateArgs(entry)
        known == paymaster \in DOMAIN l.paymasterDeposit
        deposit == IF known THEN l.paymasterDeposit[paymaster] ELSE bal.value
        l1 == IF paymaster = Null THEN l
              ELSE [l EXCEPT !.paymasterDeposit = (paymaster :> deposit) @@ @,
                             !.balances = IF known THEN @ ELSE (paymaster :> deposit) @@ @]
        l2 == IF paymaster = Null THEN l1
              ELSE [l1 EXCEPT
                      !.stakedEntityCount =
                          (paymaster :> (Lookup(@, paymaster, 0) + 1)) @@ @,
                      !.paymasterDeposit = (paymaster :> (deposit - vr.prefund)) @@ @]
        l3 == IF factory = Null THEN l2
              ELSE [l2 EXCEPT
                      !.stakedEntityCount =
                          (factory :> (Lookup(@, factory, 0) + 1)) @@ @]
        useRoot == cfg.mergeToAccountRootHash /\ cfg.conditionalRpc /\ op.initCode = "0x"
        l4 == IF useRoot
              THEN [l3 EXCEPT !.storageMap =
                        (toLowerAddr(toLowerAddr(op.sender)) :> RootEntry(proof.storageHash)) @@ @]
              ELSE l3
        l5 == [l4 EXCEPT
                 !.storageMap = mergeStorageMap(@, vr.storageMap),
                 !.senders = @ \cup {op.sender},
                 !.bundle = bundlePush(@, op),
                 !.results = Append(@, vr),
                 !.totalGas = newTotalGas]
    IN  IF paymaster # Null /\ ~known /\ ~bal.ok
        THEN [threw |-> TRUE, loc |-> l]
        ELSE IF paymaster # Null /\ DepositTooLow(deposit, vr.prefund)
        THEN [threw |-> FALSE,
              loc |-> Skipped(DepositSkipLocals(l1, l2), "deposit", call)]
        ELSE IF useRoot /\ ~proof.ok
        THEN [threw |-> TRUE, loc |-> l3]
        ELSE [threw |-> FALSE, loc |-> Skipped(l5, "included", call)]

\* one iteration of mainLoop on entry l.entries[l.idx]
Iterate(l, mp, rep, cfg, vr, bal, proof) ==
    LET entry == l.entries[l.idx]
        op == entry.userOp
        paymaster == getAddr(op.paymasterAndData)
        factory == getAddr(op.initCode)
        paymasterStatus == getStatus(rep, paymaster)
        deployerStatus == getStatus(rep, factory)
        call == ValidateArgs(entry)
        newTotalGas == l.totalGas + (vr.preOpGas + op.callGasLimit)
        keep(ll) == [threw |-> FALSE, mempool |-> mp, loc |-> ll]
    IN  IF EntityBanned(paymasterStatus, deployerStatus)
        THEN [threw |-> FALSE, mempool |-> removeUserOp(mp, op),
              loc |-> Skipped(l, "banned", NoCall)]
        ELSE IF ThrottledSkip(paymaster, paymasterStatus,
                              Lookup(l.stakedEntityCount, paymaster, 0))
        THEN keep(Skipped(l, "throttledPaymaster", NoCall))
        ELSE IF ThrottledSkip(factory, deployerStatus,
                              Lookup(l.stakedEntityCount, factory, 0))
        THEN keep(Skipped(l, "throttledFactory", NoCall))
        ELSE IF SenderInBundle(l.senders, op.sender)
        THEN keep(Skipped(l, "sender", NoCall))
        ELSE IF vr.threw
        THEN [threw |-> FALSE, mempool |-> removeUserOp(mp, op),
              loc |-> [Skipped(l, "validationFailed", call) EXCEPT
                          !.outcome[l.idx].transient = vr.transient]]
        ELSE IF AccessesKnownSender(vr.storageMap, op.sender, l.knownSenders)
        THEN keep(Skipped(l, "storage", call))
        ELSE IF StopsAssembly(newTotalGas)
        THEN keep([Skipped(l, "gas", call) EXCEPT !.idx = Len(l.entries) + 1])
        ELSE LET r == IncludeEntry(l, cfg, entry, vr, bal, proof, newTotalGas)
             IN  [threw |-> r.threw, mempool |-> mp, loc |-> r.loc]

\* the answers of the external calls one iteration can consume
ValidationChoices(l, rep) ==
    LET op == l.entries[l.idx].userOp
        paymaster == getAddr(op.paymasterAndData)
        factory == getAddr(op.initCode)
    IN  IF \/ EntityBanned(getStatus(rep, paymaster), getStatus(rep, factory))
           \/ ThrottledSkip(paymaster, getStatus(rep, paymaster),
                            Lookup(l.stakedEntityCount, paymaster, 0))
           \/ ThrottledSkip(factory, getStatus(rep, factory),
                            Lookup(l.stakedEntityCount, factory, 0))
           \/ SenderInBundle(l.senders, op.sender)
        THEN {ValidationThrows}
        ELSE ValidationOutcomes

BalanceChoices(l) ==
    LET paymaster == getAddr(l.entries[l.idx].userOp.paymasterAndData)
    IN  IF paymaster # Null /\ paymaster \notin DOMAIN l.paymasterDeposit
        THEN BalanceOutcomes
        ELSE {[ok |-> FALSE]}

ProofChoices(l, cfg) ==
    IF cfg.mergeToAccountRootHash /\ cfg.conditionalRpc
          /\ l.entries[l.idx].userOp.initCode = "0x"
    THEN ProofOutcomes
    ELSE {[ok |-> FALSE]}

\* mainLoop: the next entry of the snapshot, with the answers of the
\* external calls it makes (validateUserOp, balanceOf, eth_getProof)
mainLoop(c) ==
    /\ pc[c] = "mainLoop"
    /\ loc[c].idx <= Len(loc[c].entries)
    /\ \E vr \in ValidationChoices(loc[c], reputation),
          bal \in BalanceChoices(loc[c]),
          proof \in ProofChoices(loc[c], config) :
         LET r == Iterate(loc[c], mempool, reputation, config, vr, bal, proof)
         IN  /\ mempool' = r.mempool
             /\ IF r.threw
                THEN Settle(c, r.loc, "threw")
                ELSE /\ loc' = [loc EXCEPT ![c] = r.loc]
                     /\ UNCHANGED <<mutexHolder, mutexQueue, pc>>
    /\ UNCHANGED <<reputation, config, callsLeft, chain>>
    /\ UNCHANGED rpc

\* createBundle returns [bundle, storageMap]
createBundleReturn(c) ==
    /\ pc[c] = "mainLoop"
    /\ loc[c].idx > Len(loc[c].entries)
    /\ pc' = [pc EXCEPT ![c] = "created"]
    /\ UNCHANGED <<mempool, reputation, config, mutexHolder, mutexQueue, loc, callsLeft, chain>>
    /\ UNCHANGED rpc

\* -------------------------------------------------- after createBundle
\* sendNextBundle: if (bundle.length === 0) nothing is sent
checkBundle(c) ==
    /\ pc[c] = "created"
    /\ IF Len(loc[c].bundle) = 0
       THEN Settle(c, loc[c], "undefined")
       ELSE /\ pc' = [pc EXCEPT ![c] = "selectBeneficiary"]
            \* the locals of createBundle are gone, its bundle is kept
            /\ loc' = [loc EXCEPT ![c] = [InitLoc EXCEPT
                                              !.bundle = loc[c].bundle,
                                              !.minedAtStart = loc[c].minedAtStart]]
            /\ UNCHANGED <<mutexHolder, mutexQueue>>
    /\ UNCHANGED <<mempool, reputation, config, callsLeft, chain>>
    /\ UNCHANGED rpc

SignerBalances == {0, 1, 2}

\* the comparison without equality
LowBalanceStrict(currentBalance) == currentBalance < minSignerBalance

\* currentBalance <= minSignerBalance
LowBalance(currentBalance) == currentBalance <= minSignerBalance

\* _selectBeneficiary; getBalance is an external call and may reject
selectBeneficiary(c) ==
    /\ pc[c] = "selectBeneficiary"
    /\ \/ \E currentBalance \in SignerBalances :
            /\ loc' = [loc EXCEPT
                          ![c].signerBalance = <<currentBalance>>,
                          ![c].beneficiary =
                              IF LowBalance(currentBalance) THEN "signer" ELSE "beneficiary"]
            /\ pc' = [pc EXCEPT ![c] = "sendBundle"]
            /\ UNCHANGED <<mutexHolder, mutexQueue>>
       \/ Settle(c, loc[c], "threw")
    /\ UNCHANGED <<mempool, reputation, config, callsLeft, chain>>
    /\ UNCHANGED rpc

\* ----------------------------------------------------------- sendBundle
\* JSON-RPC error code "method not found"
MethodNotFound == -32601
\* some other JSON-RPC error code
OtherRpcError == MethodNotFound - 1

\* what the try block of sendBundle can end with, for a bundle of n ops:
\* the errors of a submission that failed
SubmitErrors(n) ==
    {[kind |-> "FailedOp", opIndex |-> i, reason |-> r] :
        i \in 0..(n - 1), r \in ReasonPrefixes}
    \cup {[kind |-> "OtherEntryPointError"], [kind |-> "UnknownSelector"],
          [kind |-> "NoRevertData", code |-> MethodNotFound],
          [kind |-> "NoRevertData", code |-> OtherRpcError]}

\* ... and with the raw transaction accepted: the hashes are returned, or
\* getUserOpHashes rejects
SubmitOutcomes(n) ==
    {[sent |-> FALSE, error |-> e] : e \in SubmitErrors(n)}
    \cup {[sent |-> TRUE, error |-> NoError],
          [sent |-> TRUE, error |-> [kind |-> "NoRevertData", code |-> OtherRpcError]]}

\* entryPoint.interface.parseError(e.data?.data ?? e.data): throws without
\* revert data, null for an unknown selector, else the decoded error
parseError(e) ==
    IF e.kind = "NoRevertData" THEN "throws"
    ELSE IF e.kind = "UnknownSelector" THEN "null"
    ELSE IF e.kind = "FailedOp" THEN "FailedOp"
    ELSE "other"

\* no error is fatal
checkFatalNever(e) == FALSE

\* checkFatal: e.error?.code === -32601
checkFatal(e) == e.code = MethodNotFound

\* the AA1 branch forgotten: an AA1 reason takes the final else
CrashTargetNoFactory(userOp, reasonStr) ==
    IF reasonStr = "AA3" THEN getAddr(userOp.paymasterAndData)
    ELSE IF reasonStr = "AA2" THEN userOp.sender
    ELSE "none"

\* the AA2 and AA3 branches exchanged
CrashTargetSwapped(userOp, reasonStr) ==
    IF reasonStr = "AA3" THEN userOp.sender
    ELSE IF reasonStr = "AA2" THEN getAddr(userOp.paymasterAndData)
    ELSE IF reasonStr = "AA1" THEN getAddr(userOp.initCode)
    ELSE "none"

\* the address sendBundle passes to crashedHandleOps for a FailedOp reason
\* (NoCrash: the final else branch, which calls removeUserOp)
NoCrash == "none"
CrashTarget(userOp, reasonStr) ==
    IF reasonStr = "AA3" THEN getAddr(userOp.paymasterAndData)
    ELSE IF reasonStr = "AA2" THEN userOp.sender
    ELSE IF reasonStr = "AA1" THEN getAddr(userOp.initCode)
    ELSE NoCrash

\* the catch block of sendBundle for error e
HandleSendError(l, mp, rep, e) ==
    LET parsed == parseError(e)
    IN  IF parsed = "throws"
        THEN [mempool |-> mp, reputation |-> rep, crashed |-> <<>>,
              ret |-> IF checkFatal(e) THEN "threwFatal" ELSE "undefined"]
        ELSE IF parsed # "FailedOp"
        \* opIndex and reason are undefined: reason.toString() throws
        THEN [mempool |-> mp, reputation |-> rep, crashed |-> <<>>,
              ret |-> "threwTypeError"]
        ELSE LET userOp == l.bundle[e.opIndex + 1]
                 target == CrashTarget(userOp, e.reason)
             IN  IF target = NoCrash
                 THEN [mempool |-> removeUserOp(mp, userOp), reputation |-> rep,
                       crashed |-> <<>>, ret |-> "undefined"]
                 ELSE [mempool |-> mp, reputation |-> crashedHandleOps(rep, target),
                       crashed |-> <<target>>, ret |-> "undefined"]

\* entryPoint.handleOps.populateTransaction(userOps, beneficiary, ...)
handleOpsArgs(userOps, beneficiary) ==
    [called |-> TRUE, ops |-> userOps, beneficiary |-> beneficiary]

\* sendBundle: submit handleOps(bundle, beneficiary); last step of the cycle
sendBundle(c) ==
    /\ pc[c] = "sendBundle"
    /\ \E out \in SubmitOutcomes(Len(loc[c].bundle)) :
         LET l == [loc[c] EXCEPT !.mempoolAtSend = mempool,
                                 !.reputationAtSend = reputation,
                                 !.error = out.error,
                                 !.tx = handleOpsArgs(loc[c].bundle, loc[c].beneficiary)]
             r == IF out.error = NoError
                  THEN [mempool |-> mempool, reputation |-> reputation,
                        crashed |-> <<>>, ret |-> "sent"]
                  ELSE HandleSendError(l, mempool, reputation, out.error)
         IN  /\ mempool' = r.mempool
             /\ reputation' = r.reputation
             /\ Settle(c, [l EXCEPT !.crashed = r.crashed], r.ret)
             /\ pending' = IF out.sent THEN pending \cup SeqToSet(l.bundle) ELSE pending
    /\ UNCHANGED <<config, callsLeft, events, mined>>
    /\ UNCHANGED rpc

\* ------------------------------------------------------------ the chain
\* the submitted handleOps transactions are mined: every op not included
\* before is included and its UserOperationEvent appears on chain
Mine ==
    /\ pending # {}
    /\ pending' = {}
    /\ events' = events \cup (pending \ mined)
    /\ mined' = mined \cup pending
    /\ UNCHANGED <<mempool, reputation, config, mutexHolder, mutexQueue, pc, loc, callsLeft>>
    /\ UNCHANGED rpc

Next ==
    \/ \E c \in Callers : sendNextBundle(c)
    \/ \E c \in Callers : handlePastEvents(c)
    \/ \E c \in Callers : createBundle(c)
    \/ \E c \in Callers : mainLoop(c)
    \/ \E c \in Callers : createBundleReturn(c)
    \/ \E c \in Callers : checkBundle(c)
    \/ \E c \in Callers : selectBeneficiary(c)
    \/ \E c \in Callers : sendBundle(c)
    \/ \E c \in Callers : release(c)
    \/ Mine

Spec == Init /\ [][Next]_vars

SpecCycles == InitCycles /\ [][Next]_vars

\* a step of the cycle of caller c: every await of the cycle settles
CycleStep(c) ==
    \/ handlePastEvents(c)
    \/ createBundle(c)
    \/ mainLoop(c)
    \/ createBundleReturn(c)
    \/ checkBundle(c)
    \/ selectBeneficiary(c)
    \/ sendBundle(c)
    \/ release(c)

\* the ops of the mempools of the specification with fairness
FairOps == {op \in CycleOps : op.sender = "0xa1"}

\* concurrent and successive cycles in which every external call settles
\* and every promise continuation runs
SpecFair ==
    /\ InitWith(FairOps, NumCallers)
    /\ [][Next]_vars
    /\ \A c \in Callers : WF_vars(CycleStep(c))

\* ---------------------------------------------- UserOpMethodHandler receipts
\* largest number of logs of a receipt
MaxLogs == 5

UserOpHashes == {"h1", "h2"}
LogDatas == {"x", "y"}
BeforeExecutionTopic == "BeforeExecution"
UserOperationEventTopic == "UserOperationEvent"
OtherTopic == "Other"

\* a log: topics[0] is the event, topics[1] of a UserOperationEvent its
\* userOpHash
Logs ==
    {[topic0 |-> BeforeExecutionTopic, topic1 |-> Null, data |-> "x"]}
    \cup [topic0 : {UserOperationEventTopic}, topic1 : UserOpHashes, data : {"x"}]
    \cup [topic0 : {OtherTopic}, topic1 : {Null}, data : LogDatas]

RECURSIVE LogSeqs(_)
LogSeqs(n) ==
    IF n = 0 THEN {<<>>}
    ELSE LET shorter == LogSeqs(n - 1)
         IN  shorter \cup
             {Append(ls, l) : ls \in {x \in shorter : Len(x) = n - 1}, l \in Logs}

\* the logs of a handleOps transaction: at most one BeforeExecution, no
\* UserOperationEvent before it, every UserOperationEvent with its own hash
HandleOpsLogs ==
    {ls \in LogSeqs(MaxLogs) :
        \A i, j \in 1..Len(ls) :
            /\ (i # j /\ ls[i].topic0 = BeforeExecutionTopic)
                    => ls[j].topic0 # BeforeExecutionTopic
            /\ (i < j /\ ls[j].topic0 = BeforeExecutionTopic)
                    => ls[i].topic0 # UserOperationEventTopic
            /\ (i # j /\ ls[i].topic0 = UserOperationEventTopic)
                    => ls[i].topic1 # ls[j].topic1 \/ ls[j].topic0 # UserOperationEventTopic}

\* startIndex = -1, endIndex = -1
NoIndex == -1

RECURSIVE filterLogsScan(_, _, _, _, _)
\* logs.forEach of _filterLogs from 0-based index on: the final
\* <<startIndex, endIndex>>
filterLogsScan(hash, logs, index, startIndex, endIndex) ==
    IF index >= Len(logs) THEN <<startIndex, endIndex>>
    ELSE LET log == logs[index + 1]
         IN  IF log.topic0 = BeforeExecutionTopic
             THEN filterLogsScan(hash, logs, index + 1, index, index)
             ELSE IF log.topic0 = UserOperationEventTopic
             THEN IF log.topic1 = hash
                  THEN filterLogsScan(hash, logs, index + 1, startIndex, index)
                  ELSE IF endIndex = NoIndex
                  THEN filterLogsScan(hash, logs, index + 1, index, endIndex)
                  ELSE filterLogsScan(hash, logs, index + 1, startIndex, endIndex)
             ELSE filterLogsScan(hash, logs, index + 1, startIndex, endIndex)

\* Array.prototype.slice(start, end) for 0 <= start: the elements at the
\* 0-based indices start .. end - 1
slice(logs, start, end) == SubSeq(logs, start + 1, end)

\* _filterLogs(userOpEvent, logs), userOpEvent given by its userOpHash
filterLogs(hash, logs) ==
    LET r == filterLogsScan(hash, logs, 0, NoIndex, NoIndex)
        startIndex == r[1]
        endIndex == r[2]
    IN  IF endIndex = NoIndex
        THEN [threw |-> TRUE, logs |-> <<>>]
        ELSE [threw |-> FALSE, logs |-> slice(logs, startIndex + 1, endIndex)]

\* _getUserOperationEvent: the UserOperationEvent of the hash, if any
HasUserOperationEvent(hash, logs) ==
    \E i \in 1..Len(logs) :
        logs[i].topic0 = UserOperationEventTopic /\ logs[i].topic1 = hash

bundling == <<mempool, reputation, config, mutexHolder, mutexQueue, pc, loc,
              callsLeft, pending, events, mined>>

\* a receipt query over the logs of some handleOps transaction; no bundling
InitReceipts ==
    /\ mempool = <<>>
    /\ reputation = [a \in Entities |-> RepOK]
    /\ config = [conditionalRpc |-> FALSE, mergeToAccountRootHash |-> FALSE]
    /\ mutexHolder = NoCaller
    /\ mutexQueue = <<>>
    /\ pc = [c \in Callers |-> "idle"]
    /\ loc = [c \in Callers |-> InitLoc]
    /\ callsLeft = 0
    /\ pending = {}
    /\ events = {}
    /\ mined = {}
    /\ receiptLogs \in HandleOpsLogs
    /\ receiptHash \in UserOpHashes
    /\ receiptOut = NoCall

\* getUserOperationReceipt: null when no UserOperationEvent of the hash is
\* found, else the logs _filterLogs leaves of the receipt of its transaction
getUserOperationReceipt ==
    /\ ~receiptOut.called
    /\ receiptOut' =
          IF ~HasUserOperationEvent(receiptHash, receiptLogs)
          THEN [called |-> TRUE, filtered |-> FALSE, null |-> TRUE]
          ELSE [called |-> TRUE, filtered |-> TRUE, null |-> FALSE,
                result |-> filterLogs(receiptHash, receiptLogs)]
    /\ UNCHANGED <<receiptLogs, receiptHash, bundling>>

\* _filterLogs called on its own with the event of the hash and the logs
filterLogsCall ==
    /\ ~receiptOut.called
    /\ receiptOut' = [called |-> TRUE, filtered |-> TRUE, null |-> FALSE,
                      result |-> filterLogs(receiptHash, receiptLogs)]
    /\ UNCHANGED <<receiptLogs, receiptHash, bundling>>

NextReceipts ==
    \/ getUserOperationReceipt
    \/ filterLogsCall

SpecReceipts == InitReceipts /\ [][NextReceipts]_vars

\* ================================================================ claims
InCreateBundle(c) == pc[c] \in {"mainLoop", "created"}
Created(c) == pc[c] = "created"
Running(c) == pc[c] \notin {"idle", "waiting", "done"}

\* the entries of the snapshot mainLoop has gone through
Examined(c) == 1..(loc[c].idx - 1)
InMempool(entry) == \E i \in 1..Len(mempool) : mempool[i] = entry
InBundle(c, op) == \E k \in 1..Len(loc[c].bundle) : loc[c].bundle[k] = op
Tag(c, i) == loc[c].outcome[i].tag
PaymasterOf(op) == getAddr(op.paymasterAndData)
FactoryOf(op) == getAddr(op.initCode)

\* C1: at most one bundling cycle executes at any time, whatever the number
\* of concurrent callers of sendNextBundle: a caller is between the first
\* step of its cycle and the release of the mutex only while no other is
C1_OneCycleAtATime ==
    \A c, d \in Callers : (Running(c) /\ Running(d)) => c = d

\* a second caller waits while the cycle of the first is in mainLoop
C1_Witness ==
    \E c, d \in Callers : pc[c] = "waiting" /\ pc[d] = "mainLoop" /\ mutexHolder = d

\* C2: the bundle createBundle returns holds at most one op per sender
\* (addresses compared case-insensitively)
C2_OneOpPerSender ==
    \A c \in Callers : Created(c) =>
        \A j, k \in 1..Len(loc[c].bundle) :
            toLowerAddr(loc[c].bundle[j].sender) = toLowerAddr(loc[c].bundle[k].sender)
                => j = k

\* the same for senders spelled the same way: skipped by senders.has
C2_OneOpPerSenderString ==
    \A c \in Callers : InCreateBundle(c) =>
        \A j, k \in 1..Len(loc[c].bundle) :
            loc[c].bundle[j].sender = loc[c].bundle[k].sender => j = k

RECURSIVE SumGas(_, _)
SumGas(bundle, results) ==
    IF bundle = <<>> THEN 0
    ELSE results[1].preOpGas + bundle[1].callGasLimit + SumGas(Tail(bundle), Tail(results))

\* C3: the gas of the returned bundle, the sum over its ops of preOpGas of
\* the re-validation plus callGasLimit, is at most maxBundleGas
C3_BundleGasBounded ==
    \A c \in Callers : Created(c) =>
        SumGas(loc[c].bundle, loc[c].results) <= maxBundleGas

RECURSIVE SumPrefund(_, _, _)
SumPrefund(bundle, results, p) ==
    IF bundle = <<>> THEN 0
    ELSE (IF PaymasterOf(bundle[1]) = p THEN results[1].prefund ELSE 0)
         + SumPrefund(Tail(bundle), Tail(results), p)

\* C4: for every paymaster of the bundle the prefunds of the ops it sponsors
\* sum to at most the balanceOf answer of its first sighting, and its
\* tracked remaining deposit is never negative
C4_PaymasterSolvent ==
    \A c \in Callers : InCreateBundle(c) =>
        /\ \A p \in DOMAIN loc[c].paymasterDeposit : loc[c].paymasterDeposit[p] >= 0
        /\ \A k \in 1..Len(loc[c].bundle) :
             LET p == PaymasterOf(loc[c].bundle[k])
             IN  p # Null =>
                   /\ p \in DOMAIN loc[c].balances
                   /\ SumPrefund(loc[c].bundle, loc[c].results, p) <= loc[c].balances[p]

\* two ops of one paymaster are in the bundle
C4_Witness ==
    \E c \in Callers :
        /\ Created(c)
        /\ \E j, k \in 1..Len(loc[c].bundle) :
             /\ j # k
             /\ PaymasterOf(loc[c].bundle[j]) # Null
             /\ PaymasterOf(loc[c].bundle[j]) = PaymasterOf(loc[c].bundle[k])

\* an entry is skipped because the deposit left does not cover its prefund
C4_SkipWitness ==
    \E c \in Callers :
        /\ Created(c)
        /\ Len(loc[c].bundle) = 1
        /\ \E i \in Examined(c) : i > 1 /\ Tag(c, i) = "deposit"

UsesEntity(op, e) == PaymasterOf(op) = e \/ FactoryOf(op) = e

\* C5: a paymaster or factory whose status is THROTTLED is used by at most
\* one op of the returned bundle
C5_ThrottledAtMostOnce ==
    \A c \in Callers : Created(c) =>
        \A e \in Entities : getStatus(reputation, e) = "THROTTLED" =>
            \A j, k \in 1..Len(loc[c].bundle) :
                (UsesEntity(loc[c].bundle[j], e) /\ UsesEntity(loc[c].bundle[k], e))
                    => j = k

\* createBundle has gone through two entries of one throttled entity
C5_Witness ==
    \E c \in Callers :
        /\ Created(c)
        /\ \E e \in Entities :
             /\ getStatus(reputation, e) = "THROTTLED"
             /\ \E i, j \in Examined(c) :
                  /\ i # j
                  /\ UsesEntity(loc[c].entries[i].userOp, e)
                  /\ UsesEntity(loc[c].entries[j].userOp, e)

HasBannedEntity(op) ==
    \/ getStatus(reputation, PaymasterOf(op)) = "BANNED"
    \/ getStatus(reputation, FactoryOf(op)) = "BANNED"

\* C6: every entry createBundle examined whose paymaster or factory is
\* BANNED is gone from the mempool and its op is not in the bundle
C6_BannedRemoved ==
    \A c \in Callers : InCreateBundle(c) =>
        \A i \in Examined(c) :
            HasBannedEntity(loc[c].entries[i].userOp) =>
                /\ ~InMempool(loc[c].entries[i])
                /\ ~InBundle(c, loc[c].entries[i].userOp)

\* an entry with a banned factory was removed and another entry included
C6_Witness ==
    \E c \in Callers :
        /\ Created(c)
        /\ Len(loc[c].bundle) = 1
        /\ \E i \in Examined(c) :
             /\ getStatus(reputation, FactoryOf(loc[c].entries[i].userOp)) = "BANNED"
             /\ ~InMempool(loc[c].entries[i])

SenderBanned(op) == getStatus(reputation, toLowerAddr(op.sender)) = "BANNED"

\* C7: when createBundle returns, no op of a BANNED sender is in its bundle
\* and no entry of a BANNED sender is left in the mempool
C7_BannedSenderGone ==
    \A c \in Callers : Created(c) =>
        /\ \A k \in 1..Len(loc[c].bundle) : ~SenderBanned(loc[c].bundle[k])
        /\ \A i \in 1..Len(mempool) : ~SenderBanned(mempool[i].userOp)

Revalidated(c, i) ==
    Tag(c, i) \in {"validationFailed", "storage", "gas", "deposit", "included"}

\* C8: every entry that reaches re-validation is validated with its recorded
\* referencedContracts and checkStakes = false; when that validation fails
\* the entry is removed from the mempool, its op is not in the bundle, and
\* assembly goes on: createBundle returns having examined every entry
C8_Revalidation ==
    \A c \in Callers : InCreateBundle(c) =>
        /\ \A i \in Examined(c) :
             /\ Revalidated(c, i) =>
                  loc[c].outcome[i].call =
                      [called |-> TRUE, userOp |-> loc[c].entries[i].userOp,
                       previousCodeHashes |-> loc[c].entries[i].referencedContracts,
                       checkStakes |-> FALSE]
             /\ Tag(c, i) = "validationFailed" =>
                  /\ ~InMempool(loc[c].entries[i])
                  /\ ~InBundle(c, loc[c].entries[i].userOp)
        /\ Created(c) => Len(loc[c].outcome) = Len(loc[c].entries)

\* the re-validation of the first entry failed and the second was included
C8_Witness ==
    \E c \in Callers :
        /\ Created(c)
        /\ Len(loc[c].entries) >= 2
        /\ Tag(c, 1) = "validationFailed"
        /\ Tag(c, 2) = "included"

SnapshotSenders(c) ==
    {toLowerAddr(loc[c].entries[i].userOp.sender) : i \in 1..Len(loc[c].entries)}

\* C9: the storage map of the re-validation of an op of the bundle names no
\* address, other than the op's own sender, that is the sender of an entry
\* of the snapshot
C9_StorageIsolation ==
    \A c \in Callers : InCreateBundle(c) =>
        \A k \in 1..Len(loc[c].bundle) :
            \A a \in DOMAIN loc[c].results[k].storageMap :
                toLowerAddr(a) # toLowerAddr(loc[c].bundle[k].sender)
                    => toLowerAddr(a) \notin SnapshotSenders(c)

\* an op that touched another sender's storage was skipped and stays in the
\* mempool, the op of the other sender is in the bundle
C9_Witness ==
    \E c \in Callers :
        /\ Created(c)
        /\ \E i, j \in Examined(c) :
             /\ Tag(c, i) = "storage"
             /\ InMempool(loc[c].entries[i])
             /\ Tag(c, j) = "included"
             /\ toLowerAddr(loc[c].entries[i].userOp.sender)
                    # toLowerAddr(loc[c].entries[j].userOp.sender)

\* the entity the claim names for a FailedOp of op with a reason prefix
C10_Entity(op, prefix) ==
    CASE prefix = "AA3" -> PaymasterOf(op)
      [] prefix = "AA2" -> toLowerAddr(op.sender)
      [] prefix = "AA1" -> FactoryOf(op)

\* C10: when submission fails with FailedOp(opIndex, reason) and reason
\* starts with AA3, AA2 or AA1, sendBundle has called crashedHandleOps once,
\* on the paymaster, sender or factory of the op at opIndex, and the
\* reputation of every other entity is as it was
C10_CrashedEntity ==
    \A c \in Callers :
        (/\ pc[c] = "release"
         /\ loc[c].error.kind = "FailedOp"
         /\ loc[c].error.reason \in {"AA1", "AA2", "AA3"}) =>
            LET op == loc[c].bundle[loc[c].error.opIndex + 1]
                e == C10_Entity(op, loc[c].error.reason)
            IN  /\ Len(loc[c].crashed) = 1
                /\ (IF loc[c].crashed[1] = Null THEN Null
                    ELSE toLowerAddr(loc[c].crashed[1])) = e
                /\ \A a \in Entities :
                     reputation[a] =
                        IF a = e THEN [opsSeen |-> crashedOpsSeen, opsIncluded |-> 0]
                        ELSE loc[c].reputationAtSend[a]

\* a bundle of two ops failed with an AA3 reason for its second op, whose
\* paymaster the first op does not use
C10_Witness ==
    \E c \in Callers :
        /\ pc[c] = "release"
        /\ loc[c].error.kind = "FailedOp"
        /\ loc[c].error.reason = "AA3"
        /\ loc[c].error.opIndex = 1
        /\ PaymasterOf(loc[c].bundle[2]) # Null
        /\ PaymasterOf(loc[c].bundle[1]) = Null
        /\ loc[c].crashed = <<PaymasterOf(loc[c].bundle[2])>>

HasEntryOf(mp, op) == \E i \in 1..Len(mp) : OpKey(mp[i].userOp) = OpKey(op)

\* C11: when sendBundle returns after a successful submission (the raw
\* transaction RPC returned a hash), no op of the bundle is left in the
\* mempool
C11_SentOpsRemoved ==
    \A c \in Callers :
        (pc[c] = "release" /\ loc[c].ret = "sent") =>
            \A k \in 1..Len(loc[c].bundle) : ~HasEntryOf(mempool, loc[c].bundle[k])

\* the cycle has handled the past events and not yet returned from createBundle
AfterPastEvents(c) == pc[c] \in {"createBundle", "mainLoop", "created"}

\* C12: handlePastEvents and the snapshot of createBundle happen while the
\* caller holds the mutex, and once handlePastEvents has completed no op
\* that was on chain when the cycle started is in the mempool, in the
\* snapshot or in the bundle of that cycle
C12_EventsBeforeSnapshot ==
    \A c \in Callers :
        /\ (pc[c] = "handlePastEvents" \/ AfterPastEvents(c)) => mutexHolder = c
        /\ AfterPastEvents(c) =>
              \A op \in loc[c].minedAtStart :
                  /\ InCreateBundle(c) =>
                        /\ ~HasEntryOf(loc[c].entries, op)
                        /\ \A k \in 1..Len(loc[c].bundle) :
                              OpKey(loc[c].bundle[k]) # OpKey(op)
                  /\ pc[c] = "createBundle" => ~HasEntryOf(mempool, op)

\* a cycle that started with an op on chain has bundled another op
C12_Witness ==
    \E c \in Callers :
        /\ Created(c)
        /\ loc[c].minedAtStart # {}
        /\ Len(loc[c].bundle) = 1

RECURSIVE IsSubsequence(_, _)
\* the ops of bundle are ops of entries, in the order of entries
IsSubsequence(bundle, entries) ==
    IF bundle = <<>> THEN TRUE
    ELSE IF entries = <<>> THEN FALSE
    ELSE IF Head(bundle) = Head(entries).userOp
         THEN IsSubsequence(Tail(bundle), Tail(entries))
         ELSE IsSubsequence(bundle, Tail(entries))

\* C13: the bundle createBundle builds is a subsequence of the snapshot of
\* getSortedForInclusion (its ops are in the relative order of their
\* entries), and the ops array sendBundle passes to handleOps is that bundle
\* in the order createBundle appended it
C13_OrderPreserved ==
    \A c \in Callers :
        /\ InCreateBundle(c) => IsSubsequence(loc[c].bundle, loc[c].entries)
        /\ loc[c].tx.called => loc[c].tx.ops = loc[c].bundle

\* a bundle of two ops has been passed to handleOps
C13_Witness ==
    \E c \in Callers :
        /\ pc[c] = "release"
        /\ loc[c].tx.called
        /\ Len(loc[c].tx.ops) = 2

\* C14: createBundle stops at the first entry that would bring the
\* accumulated gas above maxBundleGas, so that entry is not included: no op
\* of the bundle brought the gas accumulated up to and including it above
\* maxBundleGas
C14_GasBoundary ==
    \A c \in Callers : InCreateBundle(c) =>
        \A k \in 1..Len(loc[c].bundle) :
            SumGas(SubSeq(loc[c].bundle, 1, k), SubSeq(loc[c].results, 1, k))
                <= maxBundleGas

\* C15: when the submission fails with a JSON-RPC error of code -32601 the
\* error is thrown out of sendBundle and sendNextBundle, and mempool and
\* reputation are as they were when sendBundle was called
C15_MethodNotFoundFatal ==
    \A c \in Callers :
        (/\ pc[c] = "release"
         /\ loc[c].error.kind = "NoRevertData"
         /\ loc[c].error.code = MethodNotFound) =>
            /\ loc[c].ret = "threwFatal"
            /\ mempool = loc[c].mempoolAtSend
            /\ reputation = loc[c].reputationAtSend

\* the submission of a bundle failed with code -32601 and the cycle is over
C15_Witness ==
    \E c \in Callers :
        /\ pc[c] = "release"
        /\ loc[c].tx.called
        /\ loc[c].error = [kind |-> "NoRevertData", code |-> MethodNotFound]
        /\ loc[c].ret = "threwFatal"

\* this step of caller c is an external call failing transiently: the event
\* query, balanceOf or eth_getProof, the re-validation, the signer's balance
\* query, or the fee query / submission (an RPC error other than -32601)
TransientFailure(c) ==
    \/ pc[c] \in {"handlePastEvents", "mainLoop", "selectBeneficiary"}
           /\ pc'[c] = "release"
    \/ /\ pc[c] = "mainLoop"
       /\ Len(loc'[c].outcome) = Len(loc[c].outcome) + 1
       /\ loc'[c].outcome[Len(loc'[c].outcome)].transient
    \/ /\ pc[c] = "sendBundle"
       /\ loc'[c].error = [kind |-> "NoRevertData", code |-> OtherRpcError]

\* C16: a transient failure of an external call during a bundling cycle
\* changes neither the mempool nor any reputation counter
C16_TransientNoChange ==
    [][\A c \in Callers : TransientFailure(c) => UNCHANGED <<mempool, reputation>>]_vars

\* C17: an entry is skipped by the throttling rule only if an earlier entry
\* of the snapshot that uses the same throttled paymaster (or factory) is in
\* the bundle
C17_ThrottledFirstAdmitted ==
    \A c \in Callers : InCreateBundle(c) =>
        \A i \in Examined(c) :
            /\ Tag(c, i) = "throttledPaymaster" =>
                  \E j \in 1..(i - 1) :
                      /\ Tag(c, j) = "included"
                      /\ PaymasterOf(loc[c].entries[j].userOp)
                            = PaymasterOf(loc[c].entries[i].userOp)
            /\ Tag(c, i) = "throttledFactory" =>
                  \E j \in 1..(i - 1) :
                      /\ Tag(c, j) = "included"
                      /\ FactoryOf(loc[c].entries[j].userOp)
                            = FactoryOf(loc[c].entries[i].userOp)

\* the skips that are not removals
SkipTags == {"sender", "throttledPaymaster", "throttledFactory", "storage", "deposit"}
RemoveTags == {"banned", "validationFailed"}

\* this step of caller c is one iteration of mainLoop that ran to its end
IterationOf(c) ==
    pc[c] = "mainLoop" /\ Len(loc'[c].outcome) = Len(loc[c].outcome) + 1
NewTag(c) == loc'[c].outcome[Len(loc'[c].outcome)].tag
NewEntry(c) == loc[c].entries[loc[c].idx]

KeepsLocals(c, fields) == \A f \in fields : loc'[c][f] = loc[c][f]

\* the entries skipped and not removed are in the mempool when createBundle
\* returns
SkippedStay ==
    \A c \in Callers : Created(c) =>
        \A i \in Examined(c) : Tag(c, i) \in SkipTags => InMempool(loc[c].entries[i])

\* an iteration changes the mempool only when it removes a banned or an
\* invalid entry, and a skip leaves the accumulators in fields as they were
SkipFrame(c, fields) ==
    IterationOf(c) =>
        /\ mempool' # mempool => NewTag(c) \in RemoveTags
        /\ NewTag(c) \in SkipTags => (mempool' = mempool /\ KeepsLocals(c, fields))

\* a deposit skip records at most the balanceOf answer for a paymaster seen
\* for the first time
DepositSkipFrame(c) ==
    (IterationOf(c) /\ NewTag(c) = "deposit") =>
        LET p == PaymasterOf(NewEntry(c).userOp)
        IN  IF p \in DOMAIN loc[c].paymasterDeposit
            THEN loc'[c].paymasterDeposit = loc[c].paymasterDeposit
            ELSE loc'[c].paymasterDeposit
                    = (p :> loc'[c].balances[p]) @@ loc[c].paymasterDeposit

\* C18 as stated: createBundle removes an entry only when its paymaster or
\* factory is BANNED or its re-validation fails; an entry skipped for another
\* reason stays in the mempool and leaves senders, totalGas, storageMap,
\* paymasterDeposit and stakedEntityCount untouched
C18_SkipFrameAll ==
    /\ []SkippedStay
    /\ [][\A c \in Callers :
            SkipFrame(c, {"senders", "totalGas", "storageMap", "paymasterDeposit",
                          "stakedEntityCount"})]_vars

\* C18 amended: as stated, but paymasterDeposit is untouched by every skip
\* except a deposit skip of a paymaster seen for the first time, which
\* records the balanceOf answer for that paymaster
C18_SkipFrame ==
    /\ []SkippedStay
    /\ [][\A c \in Callers :
            /\ SkipFrame(c, {"senders", "totalGas", "storageMap", "stakedEntityCount"})
            /\ (IterationOf(c) /\ NewTag(c) \in SkipTags \ {"deposit"})
                    => KeepsLocals(c, {"paymasterDeposit"})
            /\ DepositSkipFrame(c)]_vars

\* the first entry was skipped for the deposit of its paymaster, seen for
\* the first time, and is still in the mempool when createBundle returns
C18_Witness ==
    \E c \in Callers :
        /\ Created(c)
        /\ Len(loc[c].entries) = 2
        /\ Tag(c, 1) = "deposit"
        /\ Tag(c, 2) = "included"
        /\ InMempool(loc[c].entries[1])

\* the cycle of caller c is over and its submission failed with a FailedOp
FailedOpHandled(c) == pc[c] = "release" /\ loc[c].error.kind = "FailedOp"

\* C19: after a FailedOp whose reason starts with AA1, AA2 or AA3 the
\* mempool is as it was when sendBundle was called; after a FailedOp with
\* another reason the mempool has lost exactly the entry of the op at
\* opIndex and every reputation counter is as it was
C19_FailedOpFrame ==
    \A c \in Callers : FailedOpHandled(c) =>
        LET op == loc[c].bundle[loc[c].error.opIndex + 1]
        IN  IF loc[c].error.reason \in {"AA1", "AA2", "AA3"}
            THEN mempool = loc[c].mempoolAtSend
            ELSE /\ mempool = SelectSeq(loc[c].mempoolAtSend, LAMBDA e : e.userOp # op)
                 /\ Len(mempool) = Len(loc[c].mempoolAtSend) - 1
                 /\ reputation = loc[c].reputationAtSend

\* a bundle of two ops failed with another reason for its first op: the
\* entry of the second is the one left in the mempool
C19_Witness ==
    \E c \in Callers :
        /\ FailedOpHandled(c)
        /\ loc[c].error.reason = "AA4"
        /\ loc[c].error.opIndex = 0
        /\ Len(loc[c].bundle) = 2
        /\ Len(mempool) = 1
        /\ mempool[1].userOp = loc[c].bundle[2]

\* C20: when the submission fails with an error that is neither a FailedOp
\* revert nor a -32601 error, sendBundle returns undefined without throwing
\* and mempool and reputation are as they were when it was called
C20_OtherErrorSwallowed ==
    \A c \in Callers :
        (/\ pc[c] = "release"
         /\ loc[c].tx.called
         /\ loc[c].error # NoError
         /\ loc[c].error.kind # "FailedOp"
         /\ loc[c].error # [kind |-> "NoRevertData", code |-> MethodNotFound]) =>
            /\ loc[c].ret = "undefined"
            /\ mempool = loc[c].mempoolAtSend
            /\ reputation = loc[c].reputationAtSend

\* two validation storage maps assert different values for one slot of one
\* address
SlotConflict(m1, m2) ==
    \E a \in DOMAIN m1 \cap DOMAIN m2 :
        /\ ~IsRoot(m1[a]) /\ ~IsRoot(m2[a])
        /\ \E slot \in DOMAIN m1[a] \cap DOMAIN m2[a] : m1[a][slot] # m2[a][slot]

\* C21: an entry whose re-validation storage map asserts, for some address
\* and slot, a value different from the one an earlier op of the bundle
\* recorded is dropped: no two ops of the bundle (of two different accounts)
\* have re-validation storage maps in conflict
C21_NoSlotConflict ==
    \A c \in Callers : InCreateBundle(c) =>
        \A j, k \in 1..Len(loc[c].bundle) :
            (j < k /\ toLowerAddr(loc[c].bundle[j].sender)
                        # toLowerAddr(loc[c].bundle[k].sender))
                => ~SlotConflict(loc[c].results[j].storageMap,
                                 loc[c].results[k].storageMap)

\* two spellings of one address that differ in letter case
CaseVariants(a, b) == a # b /\ toLowerAddr(a) = toLowerAddr(b)

\* C22: of two entries of the snapshot whose sender addresses differ only in
\* letter case createBundle includes at most one
C22_CaseVariantsOnce ==
    \A c \in Callers : InCreateBundle(c) =>
        \A i, j \in Examined(c) :
            CaseVariants(loc[c].entries[i].userOp.sender,
                         loc[c].entries[j].userOp.sender)
                => ~(Tag(c, i) = "included" /\ Tag(c, j) = "included")

\* C23: the beneficiary passed to handleOps is the signer's own address when
\* the signer's balance is at most minSignerBalance and the configured
\* beneficiary when it is greater; handleOps is called for a non-empty
\* bundle only, and a cycle whose bundle is empty selects no beneficiary
C23_Beneficiary ==
    \A c \in Callers :
        /\ loc[c].tx.called =>
              /\ Len(loc[c].bundle) > 0
              /\ loc[c].tx.beneficiary =
                    IF loc[c].signerBalance[1] <= minSignerBalance
                    THEN "signer" ELSE "beneficiary"
        /\ (Running(c) /\ ~InCreateBundle(c) /\ loc[c].bundle = <<>>) =>
              /\ ~loc[c].tx.called
              /\ loc[c].beneficiary = Null
              /\ loc[c].signerBalance = <<>>

\* a bundle was passed to handleOps with the signer as beneficiary, the
\* signer's balance being exactly minSignerBalance
C23_Witness ==
    \E c \in Callers :
        /\ loc[c].tx.called
        /\ loc[c].signerBalance = <<minSignerBalance>>
        /\ loc[c].tx.beneficiary = "signer"

\* a cycle ended with an empty bundle, nothing sent
C23_EmptyWitness ==
    \E c \in Callers :
        /\ pc[c] = "release"
        /\ loc[c].ret = "undefined"
        /\ Len(loc[c].entries) > 0
        /\ loc[c].bundle = <<>>

\* the index of the UserOperationEvent of hash in logs
EventIndex(hash, logs) ==
    CHOOSE i \in 1..Len(logs) :
        logs[i].topic0 = UserOperationEventTopic /\ logs[i].topic1 = hash

\* the index of the last UserOperationEvent or BeforeExecution before index
\* e, 0 when there is none
GroupStart(logs, e) ==
    LET marks == {i \in 1..(e - 1) :
                    logs[i].topic0 \in {UserOperationEventTopic, BeforeExecutionTopic}}
    IN  IF marks = {} THEN 0 ELSE CHOOSE i \in marks : \A j \in marks : j <= i

\* the logs of the op of hash: after the preceding UserOperationEvent or
\* BeforeExecution, before its own UserOperationEvent
LogsOfOp(hash, logs) ==
    LET e == EventIndex(hash, logs)
    IN  SubSeq(logs, GroupStart(logs, e) + 1, e - 1)

\* C24: _filterLogs returns exactly the logs strictly after the preceding
\* UserOperationEvent (or BeforeExecution) and strictly before the
\* UserOperationEvent of the given hash, and throws when the logs hold no
\* UserOperationEvent of that hash
C24_FilterLogs ==
    (receiptOut.called /\ receiptOut.filtered) =>
        IF HasUserOperationEvent(receiptHash, receiptLogs)
        THEN /\ ~receiptOut.result.threw
             /\ receiptOut.result.logs = LogsOfOp(receiptHash, receiptLogs)
        ELSE receiptOut.result.threw

\* the same for receipts whose logs hold the UserOperationEvent of the hash
\* first among the UserOperationEvents
C24_FirstOp ==
    (/\ receiptOut.called /\ receiptOut.filtered
     /\ HasUserOperationEvent(receiptHash, receiptLogs)
     /\ \A i \in 1..(EventIndex(receiptHash, receiptLogs) - 1) :
            receiptLogs[i].topic0 # UserOperationEventTopic) =>
        /\ ~receiptOut.result.threw
        /\ receiptOut.result.logs = LogsOfOp(receiptHash, receiptLogs)

\* the ops submitted in a handleOps transaction so far
Submitted == pending \cup mined

\* C25: no op is submitted twice: the bundle a cycle is about to submit
\* holds no op of a bundle submitted before
C25_NoResubmission ==
    \A c \in Callers :
        pc[c] \in {"created", "selectBeneficiary", "sendBundle"} =>
            \A k \in 1..Len(loc[c].bundle) : loc[c].bundle[k] \notin Submitted

\* C26: the mutex is free whenever no cycle is running, and a caller queued
\* for the mutex eventually starts its cycle, however the cycles before it
\* ended
C26_MutexReleased ==
    /\ []((\A c \in Callers : ~Running(c)) => mutexHolder = NoCaller)
    /\ \A c \in Callers : (pc[c] = "waiting") ~> (pc[c] = "handlePastEvents")

\* a cycle has ended by throwing the fatal error while another caller is
\* queued for the mutex
C26_Witness ==
    \E c, d \in Callers :
        /\ pc[c] = "waiting"
        /\ pc[d] = "release"
        /\ mutexHolder = d
        /\ loc[d].ret = "threwFatal"

====
